---------------------------- MODULE Spec2Model ----------------------------
(***************************************************************************)
(* Model of luminance's shader Program wrapper (src/shader/program.rs) and *)
(* of the attributeless example's frame loop                               *)
(* (luminance/examples/05-attributeless/src/main.rs).                      *)
(*                                                                         *)
(* Spec      : any sequence of Program::new, uniform, update and drop over *)
(*             a backend implementing HasProgram.                          *)
(* StageSpec : programs and stages created and dropped in any order.       *)
(* GateSpec  : programs created, updated and dropped by a client that also *)
(*             walks the gate chain.                                       *)
(* MainSpec  : the control flow of the example's main().                   *)
(*                                                                         *)
(* The backend behind the HasProgram trait, the Stage and Uniform types    *)
(* and the gate chain are not part of the sources at hand; they are        *)
(* modelled from the specification and marked so where they are defined.   *)
(***************************************************************************)
EXTENDS Integers, Sequences, FiniteSets, TLC

VARIABLES
  stageLive,     \* Stage objects that have not been dropped (stage ids)
  beStageFreed,  \* backend stage handles released by the backend
  programs,      \* Program objects ever constructed: <<[repr, live, stages]>>
  beNew,         \* per backend handle: successful new_program returns
  beFree,        \* per backend handle: free_program calls
  beLinked,      \* per backend handle: stage handles of the linked program
  held,          \* the Uniform handle the client keeps (Option)
  gate,          \* open gate scopes, outermost first (<<>> = Surface-ready)
  boundProg,     \* program object bound by the open ShadingGate (Option)
  lastOp,        \* the last operation: its inputs, backend calls and result
  pc,            \* main(): the statement it is at
  events,        \* main(): events of the polled batch not yet handled
  acquired,      \* main(): resources held by locals, in acquisition order
  released,      \* main(): resources released, in release order
  tessBuilt,     \* main(): the Tess held by `tess` (Option)
  framebuffers,  \* back-buffer Framebuffers ever created: <<[dims, releases]>>
  backBuffer,    \* main(): the Framebuffer `back_buffer` holds (0: none)
  frame,         \* the frame under way: backend trace, failed bind, closures
                 \* run, swaps
  reported       \* the size the platform reported last (surface.size() or the
                 \* last FramebufferSize event polled)

apiVars == <<stageLive, beStageFreed, beNew, beFree, beLinked, held>>
mainVars == <<pc, events, acquired, released, tessBuilt, framebuffers, backBuffer,
              frame, reported>>
vars == <<stageLive, beStageFreed, programs, beNew, beFree, beLinked, held,
          gate, boundProg, lastOp, pc, events, acquired, released, tessBuilt,
          framebuffers, backBuffer, frame, reported>>

-----------------------------------------------------------------------------
(* Bounds of the model *)

\* Program objects a run constructs
MaxPrograms == 2

-----------------------------------------------------------------------------
(* Option and Result values *)

None == <<>>
Some(x) == <<x>>

Ok(v) == [ok |-> TRUE, val |-> v]
Err(kind, text) == [ok |-> FALSE, err |-> <<kind, text>>]

\* enum ProgramError { LinkFailed(String), InactiveUniform(String),
\*                     UniformTypeMismatch(String) }
ProgramError == {"LinkFailed", "InactiveUniform", "UniformTypeMismatch"}

-----------------------------------------------------------------------------
(* Stages.  Stage<C, T> wraps a backend handle `repr` and carries its role *)
(* T as a type parameter.                                                  *)

\* backend program handles: one per successful link suffices
Handles == 1..MaxPrograms

RoleOrder == <<"TessellationControlShader", "TessellationEvaluationShader",
               "VertexShader", "GeometryShader", "FragmentShader">>

\* one compiled Stage per role
StageIds == DOMAIN RoleOrder

\* the type parameter T of stage s
StageRole(s) == RoleOrder[s]

\* the field `repr` of stage s: the backend's AStage handle
StageRepr(s) == 100 + s

StagesOf(role) == {s \in StageIds : StageRole(s) = role}

\* Uniforms declared by the source text of a stage: name -> GLSL type.
\* The vertex and fragment sources declare none, the geometry source
\* declares `time` as a vec2, the tessellation sources `resolution`.
StageUniforms(s) ==
  CASE StageRole(s) = "GeometryShader" -> {<<"time", "vec2">>}
    [] StageRole(s) = "TessellationControlShader" -> {<<"resolution", "vec2">>}
    [] StageRole(s) = "TessellationEvaluationShader" -> {<<"resolution", "vec2">>}
    [] OTHER -> {}

UniformNames == {"time", "resolution", "color"}
UniformTypes == {"f32", "vec2"}


-----------------------------------------------------------------------------
(* Program::new *)

\* The argument tuples the signature of Program::new admits: the tess pair
\* is one Option of a (control, evaluation) pair, vertex and fragment are
\* mandatory references, geometry is an Option; every stage is typed by
\* its role.
TessInputs ==
  {None} \cup {Some(<<a, b>>) : a \in StagesOf("TessellationControlShader"),
                               b \in StagesOf("TessellationEvaluationShader")}
GeometryInputs == {None} \cup {Some(g) : g \in StagesOf("GeometryShader")}

\* the Stage objects borrowed by a call of Program::new
StagesUsed(tess, vertex, geometry, fragment) ==
  {vertex, fragment}
    \cup (IF tess = None THEN {} ELSE {tess[1][1], tess[1][2]})
    \cup (IF geometry = None THEN {} ELSE {geometry[1]})

\* the call C::new_program(tess.map(|(tcs, tes)| (&tcs.repr, &tes.repr)),
\*   &vertex.repr, geometry.map(|g| &g.repr), &fragment.repr)
NewProgramSwapped(tess, vertex, geometry, fragment) ==
  [fn |-> "new_program",
   tess |-> IF tess = None THEN None
            ELSE Some(<<StageRepr(tess[1][1]), StageRepr(tess[1][2])>>),
   vertex |-> StageRepr(fragment),
   geometry |-> IF geometry = None THEN None ELSE Some(StageRepr(geometry[1])),
   fragment |-> StageRepr(vertex)]
NewProgramHalfTess(tess, vertex, geometry, fragment) ==
  [fn |-> "new_program",
   tess |-> IF tess = None THEN None
            ELSE Some(<<StageRepr(tess[1][1])>>),
   vertex |-> StageRepr(vertex),
   geometry |-> IF geometry = None THEN None ELSE Some(StageRepr(geometry[1])),
   fragment |-> StageRepr(fragment)]
NewProgramCall(tess, vertex, geometry, fragment) ==
  [fn |-> "new_program",
   tess |-> IF tess = None THEN None
            ELSE Some(<<StageRepr(tess[1][1]), StageRepr(tess[1][2])>>),
   vertex |-> StageRepr(vertex),
   geometry |-> IF geometry = None THEN None ELSE Some(StageRepr(geometry[1])),
   fragment |-> StageRepr(fragment)]

\* the stage handles a new_program call hands to the backend
CallStages(call) ==
  {call.vertex, call.fragment}
    \cup UNION {{call.tess[i][j] : j \in DOMAIN call.tess[i]} :
                   i \in DOMAIN call.tess}
    \cup {call.geometry[i] : i \in DOMAIN call.geometry}

\* handles the backend may give a new program: one it has released, or
\* the next one it never used (handles are opaque names, so the fresh one
\* is named canonically)
FreeHandles ==
  {h \in Handles : /\ beNew[h] = beFree[h]
                   /\ \A x \in 1..(h - 1) : beNew[x] > 0}

\* HasProgram::new_program: what the backend may return for a link call.
\* It links against stage handles it still holds and names the program by
\* a handle that is not in use, or it rejects the link.
new_program(call) ==
  {Err("LinkFailed", "link rejected")}
    \cup (IF CallStages(call) \cap beStageFreed = {}
          THEN {Ok(h) : h \in FreeHandles}
          ELSE {})

\* Program::new: one new_program call, its Ok value wrapped into
\* Program { repr }, its Err value passed on.
Program_new(tess, vertex, geometry, fragment, r) ==
  [calls |-> <<NewProgramCall(tess, vertex, geometry, fragment)>>,
   result |-> IF r.ok THEN Ok([repr |-> r.val]) ELSE r]

-----------------------------------------------------------------------------
(* Program::uniform *)

\* UniformName::StringName(String::from(name))
StringName(name) == [tag |-> "StringName", str |-> name]

\* the uniforms active in the backend program h: those its stages declare
ActiveUniforms(h) ==
  UNION {StageUniforms(s) : s \in {x \in StageIds : StageRepr(x) \in beLinked[h]}}

\* the location the linker gives an active uniform
UniformSlot(name) ==
  CASE name = "time" -> 0 [] name = "resolution" -> 1 [] OTHER -> 2

\* HasProgram::map_uniform(program, name): the backend resolves the name in
\* the linked program.  It is handed the program and the name only, so the
\* value it returns cannot depend on the type the caller asks for.
map_uniform(h, name) ==
  IF \E d \in ActiveUniforms(h) : d[1] = name.str
  THEN Ok([program |-> h, slot |-> UniformSlot(name.str)])
  ELSE Err("InactiveUniform", name.str)

\* Uniform::new(u): the backend value tagged with the phantom type T
Uniform_new(u, T) == [u |-> u, ty |-> T]

\* Program::uniform::<T>(&self, name):
\*   C::map_uniform(&self.repr, StringName(String::from(name)))
\*     .map(|u| Uniform::new(u))
UniformOfFirstHandle(p, T, name) ==
  LET r == map_uniform(1, StringName(name))
      call == [fn |-> "map_uniform", program |-> 1, name |-> StringName(name),
               ret |-> r]
  IN [calls |-> <<call>>,
      result |-> IF r.ok THEN Ok(Uniform_new(r.val, T)) ELSE r]
UniformSwallowsErr(p, T, name) ==
  LET r == map_uniform(p.repr, StringName(name))
      call == [fn |-> "map_uniform", program |-> p.repr,
               name |-> StringName(name), ret |-> r]
  IN [calls |-> <<call>>,
      result |-> IF r.ok THEN Ok(Uniform_new(r.val, T))
                 ELSE Ok(Uniform_new([program |-> p.repr, slot |-> 0], T))]
UniformCached(p, T, name) ==
  LET r == map_uniform(p.repr, StringName(name))
      call == [fn |-> "map_uniform", program |-> p.repr,
               name |-> StringName(name), ret |-> r]
  IN IF held # None /\ held[1].uni.u.program = p.repr
     THEN [calls |-> <<>>, result |-> Ok(held[1].uni)]
     ELSE [calls |-> <<call>>,
           result |-> IF r.ok THEN Ok(Uniform_new(r.val, T)) ELSE r]
UniformRetries(p, T, name) ==
  LET r == map_uniform(p.repr, StringName(name))
      call == [fn |-> "map_uniform", program |-> p.repr,
               name |-> StringName(name), ret |-> r]
  IN [calls |-> IF r.ok THEN <<call>> ELSE <<call, call>>,
      result |-> IF r.ok THEN Ok(Uniform_new(r.val, T)) ELSE r]
Program_uniform(p, T, name) ==
  LET r == map_uniform(p.repr, StringName(name))
      call == [fn |-> "map_uniform", program |-> p.repr,
               name |-> StringName(name), ret |-> r]
  IN [calls |-> <<call>>,
      result |-> IF r.ok THEN Ok(Uniform_new(r.val, T)) ELSE r]

-----------------------------------------------------------------------------
(* Program::update *)

\* A closure F: Fn() handed to update is modelled by the Uniform handles it
\* captured and sets, in order.

\* Setting a Uniform while the backend updates program `cur`: a handle
\* carries the identity of its program, and a handle of another program is
\* rejected at this boundary.
Uniform_update(uni, cur) ==
  IF uni.u.program = cur
  THEN [fn |-> "set_uniform", program |-> cur, slot |-> uni.u.slot,
        handle |-> uni]
  ELSE [fn |-> "rejected", program |-> cur, slot |-> uni.u.slot,
        handle |-> uni]

\* HasProgram::update_uniforms(program, f): runs f against the program
update_uniforms(h, f) == [i \in DOMAIN f |-> Uniform_update(f[i], h)]

\* Program::update(&self, f): C::update_uniforms(&self.repr, f)
UpdateFirstHandle(p, f) ==
  <<[fn |-> "update_uniforms", program |-> 1]>> \o update_uniforms(1, f)
Program_update(p, f) ==
  <<[fn |-> "update_uniforms", program |-> p.repr]>>
    \o update_uniforms(p.repr, f)

-----------------------------------------------------------------------------
(* impl Drop for Program *)

\* drop(&mut self): C::free_program(&mut self.repr)
DropFreesTwice(p) ==
  <<[fn |-> "free_program", program |-> p.repr],
    [fn |-> "free_program", program |-> p.repr]>>
DropFreesStages(p) ==
  <<[fn |-> "free_program", program |-> p.repr]>>
    \o <<[fn |-> "free_stage",
          stage |-> StageRepr(CHOOSE s \in p.stages :
                                StageRole(s) = "VertexShader")]>>
Program_drop(p) == <<[fn |-> "free_program", program |-> p.repr]>>

\* free_program calls on handle h among some backend calls
FreeCalls(calls, h) ==
  Cardinality({i \in DOMAIN calls :
                 calls[i].fn = "free_program" /\ calls[i].program = h})

\* stage handles released by free_stage calls among some backend calls
FreedStages(calls) ==
  {calls[i].stage : i \in {j \in DOMAIN calls : calls[j].fn = "free_stage"}}

-----------------------------------------------------------------------------
(* Gate chain: Pipeline -> ShadingGate -> RenderGate -> TessGate.  A gate  *)
(* binds on entry; its body runs only when the bind succeeded.             *)

SurfaceReady == <<>>
FramebufferBound == <<"Pipeline">>
ProgramBound == <<"Pipeline", "ShadingGate">>
StateConfigured == <<"Pipeline", "ShadingGate", "RenderGate">>

\* whether the body of a scope runs, given the outcome of its bind
BodyRunsAnyway(bindOk) == TRUE
Gate_body(bindOk) == bindOk

\* the open scopes after entering `scope`
Gate_enter(g, scope, bindOk) == IF Gate_body(bindOk) THEN Append(g, scope) ELSE g

\* the open scopes after leaving the innermost one
Gate_leave(g) == SubSeq(g, 1, Len(g) - 1)

-----------------------------------------------------------------------------
(* The Program API and the gate chain driven by an arbitrary client *)

Init ==
  /\ stageLive = StageIds
  /\ beStageFreed = {}
  /\ programs = <<>>
  /\ beNew = [h \in Handles |-> 0]
  /\ beFree = [h \in Handles |-> 0]
  /\ beLinked = [h \in Handles |-> {}]
  /\ held = None
  /\ gate = SurfaceReady
  /\ boundProg = None
  /\ lastOp = [op |-> "init"]
  /\ pc = "library"
  /\ events = <<>>
  /\ acquired = <<>>
  /\ released = <<>>
  /\ tessBuilt = None
  /\ framebuffers = <<>>
  /\ backBuffer = 0
  /\ frame = [trace |-> <<>>, failed |-> None, bodies |-> {}, swaps |-> 0]
  /\ reported = <<0, 0>>

LivePrograms == {i \in DOMAIN programs : programs[i].live}

ProgramNew(tess, vertex, geometry, fragment) ==
  /\ StagesUsed(tess, vertex, geometry, fragment) \subseteq stageLive
  /\ \E r \in new_program(NewProgramCall(tess, vertex, geometry, fragment)) :
       LET out == Program_new(tess, vertex, geometry, fragment, r)
       IN /\ r.ok => Len(programs) < MaxPrograms
          /\ beNew' = IF r.ok THEN [beNew EXCEPT ![r.val] = @ + 1] ELSE beNew
          /\ beLinked' = IF r.ok
                         THEN [beLinked EXCEPT ![r.val] = CallStages(out.calls[1])]
                         ELSE beLinked
          /\ programs' =
               IF out.result.ok
               THEN Append(programs,
                           [repr |-> out.result.val.repr, live |-> TRUE,
                            stages |-> StagesUsed(tess, vertex, geometry, fragment)])
               ELSE programs
          /\ lastOp' = [op |-> "new", tess |-> tess, vertex |-> vertex,
                        geometry |-> geometry, fragment |-> fragment,
                        ret |-> r, calls |-> out.calls, result |-> out.result]
  /\ UNCHANGED mainVars
  /\ UNCHANGED <<stageLive, beStageFreed, beFree, held, gate, boundProg>>

ProgramUniform(i, T, name) ==
  /\ i \in LivePrograms
  /\ LET out == Program_uniform(programs[i], T, name)
     IN /\ held' = IF out.result.ok
                   THEN Some([origin |-> i, uni |-> out.result.val])
                   ELSE held
        /\ lastOp' = [op |-> "uniform", prog |-> i, ty |-> T, name |-> name,
                      before |-> held, calls |-> out.calls,
                      result |-> out.result]
  /\ UNCHANGED mainVars
  /\ UNCHANGED <<stageLive, beStageFreed, programs, beNew, beFree, beLinked,
                 gate, boundProg>>

\* the closures the client can hand to update: one that sets nothing, and
\* one that sets the Uniform handle it holds
Closures == {<<>>} \cup {<<held[k].uni>> : k \in DOMAIN held}

ProgramUpdate(i, f) ==
  /\ i \in LivePrograms
  /\ lastOp' = [op |-> "update", prog |-> i, f |-> f, origin |-> held,
                gate |-> gate, bound |-> boundProg,
                calls |-> Program_update(programs[i], f)]
  /\ UNCHANGED mainVars
  /\ UNCHANGED <<stageLive, beStageFreed, programs, beNew, beFree, beLinked,
                 held, gate, boundProg>>

ProgramDrop(i) ==
  /\ i \in LivePrograms
  /\ boundProg # Some(i)
  /\ LET calls == Program_drop(programs[i])
     IN /\ beFree' = [h \in Handles |-> beFree[h] + FreeCalls(calls, h)]
        /\ beStageFreed' = beStageFreed \cup FreedStages(calls)
        /\ beLinked' = [h \in Handles |->
                          IF FreeCalls(calls, h) > 0 THEN {} ELSE beLinked[h]]
        /\ lastOp' = [op |-> "drop", prog |-> i, calls |-> calls]
  /\ programs' = [programs EXCEPT ![i].live = FALSE]
  /\ UNCHANGED mainVars
  /\ UNCHANGED <<stageLive, beNew, held, gate, boundProg>>

\* a Stage goes out of scope: its owner releases its backend handle
StageDrop(s) ==
  /\ s \in stageLive
  /\ stageLive' = stageLive \ {s}
  /\ beStageFreed' = beStageFreed \cup {StageRepr(s)}
  /\ lastOp' = [op |-> "stage_drop", stage |-> s]
  /\ UNCHANGED mainVars
  /\ UNCHANGED <<programs, beNew, beFree, beLinked, held, gate, boundProg>>

GatePipeline(bindOk) ==
  /\ gate = SurfaceReady
  /\ gate' = Gate_enter(gate, "Pipeline", bindOk)
  /\ lastOp' = [op |-> "gate", scope |-> "Pipeline", bindOk |-> bindOk]
  /\ UNCHANGED mainVars
  /\ UNCHANGED <<stageLive, beStageFreed, programs, beNew, beFree, beLinked,
                 held, boundProg>>

GateShade(i, bindOk) ==
  /\ gate = FramebufferBound
  /\ i \in LivePrograms
  /\ gate' = Gate_enter(gate, "ShadingGate", bindOk)
  /\ boundProg' = IF gate' = gate THEN None ELSE Some(i)
  /\ lastOp' = [op |-> "gate", scope |-> "ShadingGate", bindOk |-> bindOk]
  /\ UNCHANGED mainVars
  /\ UNCHANGED <<stageLive, beStageFreed, programs, beNew, beFree, beLinked,
                 held>>

GateRender(bindOk) ==
  /\ gate = ProgramBound
  /\ gate' = Gate_enter(gate, "RenderGate", bindOk)
  /\ lastOp' = [op |-> "gate", scope |-> "RenderGate", bindOk |-> bindOk]
  /\ UNCHANGED mainVars
  /\ UNCHANGED <<stageLive, beStageFreed, programs, beNew, beFree, beLinked,
                 held, boundProg>>

GateTessRender ==
  /\ gate = StateConfigured
  /\ lastOp' = [op |-> "draw", gate |-> gate, bound |-> boundProg]
  /\ UNCHANGED mainVars
  /\ UNCHANGED <<stageLive, beStageFreed, programs, beNew, beFree, beLinked,
                 held, gate, boundProg>>

GateLeave ==
  /\ gate # SurfaceReady
  /\ gate' = Gate_leave(gate)
  /\ boundProg' = IF gate = ProgramBound THEN None ELSE boundProg
  /\ lastOp' = [op |-> "leave"]
  /\ UNCHANGED mainVars
  /\ UNCHANGED <<stageLive, beStageFreed, programs, beNew, beFree, beLinked,
                 held>>

ApiNext ==
  \/ \E tess \in TessInputs, vertex \in StagesOf("VertexShader"),
        geometry \in GeometryInputs, fragment \in StagesOf("FragmentShader") :
       ProgramNew(tess, vertex, geometry, fragment)
  \/ \E i \in DOMAIN programs, T \in UniformTypes, name \in UniformNames :
       ProgramUniform(i, T, name)
  \/ \E i \in DOMAIN programs, f \in Closures : ProgramUpdate(i, f)
  \/ \E i \in DOMAIN programs : ProgramDrop(i)

\* Spec: any sequence of Program::new, uniform, update and drop
Next == ApiNext

Spec == Init /\ [][Next]_vars

\* StageSpec: programs and stages created and dropped in any order
StageNext ==
  \/ \E tess \in TessInputs, vertex \in StagesOf("VertexShader"),
        geometry \in GeometryInputs, fragment \in StagesOf("FragmentShader") :
       ProgramNew(tess, vertex, geometry, fragment)
  \/ \E i \in DOMAIN programs : ProgramDrop(i)
  \/ \E s \in StageIds : StageDrop(s)

StageSpec == Init /\ [][StageNext]_vars

\* GateSpec: programs created, updated and dropped by a client that also
\* walks the gate chain
GateNext ==
  \/ \E tess \in TessInputs, vertex \in StagesOf("VertexShader"),
        geometry \in GeometryInputs, fragment \in StagesOf("FragmentShader") :
       ProgramNew(tess, vertex, geometry, fragment)
  \/ \E i \in DOMAIN programs, f \in Closures : ProgramUpdate(i, f)
  \/ \E i \in DOMAIN programs : ProgramDrop(i)
  \/ \E bindOk \in BOOLEAN : GatePipeline(bindOk)
  \/ \E i \in DOMAIN programs, bindOk \in BOOLEAN : GateShade(i, bindOk)
  \/ \E bindOk \in BOOLEAN : GateRender(bindOk)
  \/ GateTessRender
  \/ GateLeave

GateSpec == Init /\ [][GateNext]_vars

-----------------------------------------------------------------------------
(* Building and drawing a Tess *)

\* TessBuilder::new(..).set_vertex_nb(n).set_mode(mode).build(): the
\* vertex count is the explicit one, or else the one inferred from `data`
\* vertices of attribute data; a Tess needs one of them, and attribute data
\* has to be uploaded
BuildsEmptyTess(vertex_nb, data, mode, uploadOk) ==
  IF data > 0 /\ ~uploadOk THEN Err("BackendUploadFailed", "")
  ELSE Ok([vertex_nb |-> IF vertex_nb > 0 THEN vertex_nb ELSE data,
           mode |-> mode])
TessBuilder_build(vertex_nb, data, mode, uploadOk) ==
  LET count == IF vertex_nb > 0 THEN vertex_nb ELSE data
  IN IF count = 0 THEN Err("NoVerticesSpecified", "")
     ELSE IF data > 0 /\ ~uploadOk THEN Err("BackendUploadFailed", "")
     ELSE Ok([vertex_nb |-> count, mode |-> mode])

\* the draw a TessGate issues for a Tess: one invocation per vertex
Tess_draw(t) == [mode |-> t.mode, vertices |-> t.vertex_nb]

\* vertex counts a builder is given
MaxVertexNb == 2

TessModes == {"Point", "Line", "LineStrip", "Triangle", "TriangleStrip",
              "TriangleFan", "Patch"}

TessBuild(vertex_nb, data, mode, uploadOk) ==
  /\ gate = SurfaceReady
  /\ LET built == TessBuilder_build(vertex_nb, data, mode, uploadOk)
     IN /\ tessBuilt' = IF built.ok THEN Some(built.val) ELSE tessBuilt
        /\ lastOp' = [op |-> "tess_build", vertex_nb |-> vertex_nb,
                      data |-> data, uploadOk |-> uploadOk, result |-> built]
  /\ UNCHANGED apiVars
  /\ UNCHANGED <<programs, gate, boundProg, pc, events, acquired, released,
                 framebuffers, backBuffer, frame, reported>>

\* tess_gate.render(tess) inside an open RenderGate
TessGateRender ==
  /\ gate = StateConfigured
  /\ tessBuilt # None
  /\ lastOp' = [op |-> "draw", gate |-> gate, bound |-> boundProg,
                mode |-> Tess_draw(tessBuilt[1]).mode,
                vertices |-> Tess_draw(tessBuilt[1]).vertices]
  /\ UNCHANGED apiVars
  /\ UNCHANGED mainVars
  /\ UNCHANGED <<programs, gate, boundProg>>

\* TessSpec: Tess objects built and drawn through the gate chain
TessNext ==
  \/ \E vertex \in StagesOf("VertexShader"),
        fragment \in StagesOf("FragmentShader") :
       ProgramNew(None, vertex, None, fragment)
  \/ \E vertex_nb \in 0..MaxVertexNb, data \in 0..MaxVertexNb,
        mode \in TessModes, uploadOk \in BOOLEAN :
       TessBuild(vertex_nb, data, mode, uploadOk)
  \/ \E bindOk \in BOOLEAN : GatePipeline(bindOk)
  \/ \E i \in DOMAIN programs, bindOk \in BOOLEAN : GateShade(i, bindOk)
  \/ \E bindOk \in BOOLEAN : GateRender(bindOk)
  \/ TessGateRender
  \/ GateLeave

TessSpec == Init /\ [][TessNext]_vars

-----------------------------------------------------------------------------
(* The attributeless example: main() *)

\* events a poll can return in one batch, and Framebuffers a run creates
MaxBatch == 2
MaxFramebuffers == 3

\* WindowDim::Windowed(960, 540)
InitialSize == <<960, 540>>

\* `width as u32`: the event's i32 taken modulo 2^32 (a framebuffer size
\* reported by the platform is never negative)
AsU32(x) == IF x >= 0 THEN x ELSE x + 65536 * 65536

\* WindowEvent values: Close, Key(Escape, _, Release, _), FramebufferSize
\* with its size, and events the match ignores
WindowEvents ==
  {[ev |-> e, w |-> 0, h |-> 0] :
     e \in {"Close", "EscapeRelease", "EscapePress", "CursorPos"}}
    \cup {[ev |-> "FramebufferSize", w |-> d[1], h |-> d[2]] :
            d \in {<<960, 540>>, <<1280, 720>>}}

RECURSIVE SeqsUpTo(_, _)
SeqsUpTo(S, n) ==
  IF n = 0 THEN {<<>>}
  ELSE LET shorter == SeqsUpTo(S, n - 1)
       IN shorter \cup {Append(q, x) : q \in shorter, x \in S}

\* FramebufferSize events in a batch
Resizes(batch) ==
  Cardinality({k \in DOMAIN batch : batch[k].ev = "FramebufferSize"})

\* the batches surface.poll_events() can return
PollBatches ==
  {b \in SeqsUpTo(WindowEvents, MaxBatch) :
     Len(framebuffers) + Resizes(b) <= MaxFramebuffers}

\* the size the platform reported last, once a batch has been polled
RECURSIVE LastReported(_, _)
LastReported(batch, size) ==
  IF batch = <<>> THEN size
  ELSE LastReported(Tail(batch),
                    IF Head(batch).ev = "FramebufferSize"
                    THEN <<Head(batch).w, Head(batch).h>> ELSE size)

\* line 52: [width as u32, height as u32]
ResizedSwapped(event) == <<AsU32(event.h), AsU32(event.w)>>
ResizedDims(event) == <<AsU32(event.w), AsU32(event.h)>>

\* Framebuffer::back_buffer(size): a Framebuffer recording the size
Framebuffer_back_buffer(size) == [dims |-> size, releases |-> 0]

\* lines 38-42: the Tess of the example, three vertices drawn as a triangle,
\* with no attribute data
Main_tess_strip == TessBuilder_build(4, 0, "TriangleStrip", TRUE)
Main_tess == TessBuilder_build(3, 0, "Triangle", TRUE)

\* locals are dropped in the reverse order of their declaration
KeepOrder(q) == q
RECURSIVE Reverse(_)
Reverse(q) == IF q = <<>> THEN <<>> ELSE Append(Reverse(Tail(q)), Head(q))

\* the framebuffers after the one `back_buffer` holds was released
KeepsOldBackBuffer(fbs, b) == fbs
ReleaseBackBuffer(fbs, b) ==
  IF b = 0 THEN fbs ELSE [fbs EXCEPT ![b].releases = @ + 1]

NewFrame == [trace |-> <<>>, failed |-> None, bodies |-> {}, swaps |-> 0]

\* the first statement of the closure handed to a gate, by the statement
\* entering the gate (the nesting of the closures of lines 61 to 67)
DrawInPipelineBody(stmt) ==
  CASE stmt = "pipeline" -> "tess_render"
    [] stmt = "shade" -> "render"
    [] stmt = "render" -> "tess_render"
Main_body(stmt) ==
  CASE stmt = "pipeline" -> "shade"
    [] stmt = "shade" -> "render"
    [] stmt = "render" -> "tess_render"

\* the statement reached when the gate entered by stmt returns without
\* running its closure
SkipToSwap(stmt) ==
  CASE stmt = "pipeline" -> "swap"
    [] stmt = "shade" -> "swap"
    [] stmt = "render" -> "shade_end"
Main_skip(stmt) ==
  CASE stmt = "pipeline" -> "swap"
    [] stmt = "shade" -> "pipeline_end"
    [] stmt = "render" -> "shade_end"

\* the scope a statement enters and the backend binds it performs
Main_scope(stmt) ==
  CASE stmt = "pipeline" -> "Pipeline"
    [] stmt = "shade" -> "ShadingGate"
    [] stmt = "render" -> "RenderGate"
Main_binds(stmt) ==
  CASE stmt = "pipeline" -> <<"bind_framebuffer", "clear">>
    [] stmt = "shade" -> <<"use_program">>
    [] stmt = "render" -> <<"render_state">>

MainInit ==
  /\ stageLive = StageIds
  /\ beStageFreed = {}
  /\ programs = <<>>
  /\ beNew = [h \in Handles |-> 0]
  /\ beFree = [h \in Handles |-> 0]
  /\ beLinked = [h \in Handles |-> {}]
  /\ held = None
  /\ gate = SurfaceReady
  /\ boundProg = None
  /\ lastOp = [op |-> "init"]
  /\ pc = "surface"
  /\ events = <<>>
  /\ acquired = <<>>
  /\ released = <<>>
  /\ tessBuilt = None
  /\ framebuffers = <<>>
  /\ backBuffer = 0
  /\ frame = NewFrame
  /\ reported = InitialSize

\* a panic unwinds main: the locals acquired so far are dropped
Panic ==
  /\ pc' = "panicked"
  /\ released' = released \o Reverse(acquired)
  /\ acquired' = <<>>

\* lines 26-31: GlfwSurface::new(..).expect(..)
MainSurface(ok) ==
  /\ pc = "surface"
  /\ IF ok
     THEN /\ pc' = "program"
          /\ acquired' = Append(acquired, "surface")
          /\ UNCHANGED released
     ELSE Panic
  /\ lastOp' = [op |-> "surface", ok |-> ok]
  /\ UNCHANGED apiVars
  /\ UNCHANGED reported
  /\ UNCHANGED <<programs, gate, boundProg, events, tessBuilt, framebuffers,
                 backBuffer, frame>>

\* line 34: Program::from_strings(None, VS, None, FS).expect(..)
MainProgram(ok) ==
  /\ pc = "program"
  /\ IF ok
     THEN /\ pc' = "tess"
          /\ acquired' = Append(acquired, "program")
          /\ programs' = <<[repr |-> 1, live |-> TRUE,
                            stages |-> StagesOf("VertexShader")
                                         \cup StagesOf("FragmentShader")]>>
          /\ UNCHANGED released
     ELSE Panic /\ UNCHANGED programs
  /\ lastOp' = [op |-> "program", ok |-> ok]
  /\ UNCHANGED apiVars
  /\ UNCHANGED reported
  /\ UNCHANGED <<gate, boundProg, events, tessBuilt, framebuffers, backBuffer,
                 frame>>

\* lines 38-42: TessBuilder .set_vertex_nb(3).set_mode(Triangle).build()
\*              .unwrap()
MainTess ==
  /\ pc = "tess"
  /\ LET built == Main_tess
     IN /\ IF built.ok
           THEN /\ pc' = "back_buffer"
                /\ acquired' = Append(acquired, "tess")
                /\ tessBuilt' = Some(built.val)
                /\ UNCHANGED released
           ELSE Panic /\ UNCHANGED tessBuilt
        /\ lastOp' = [op |-> "tess", result |-> built]
  /\ UNCHANGED apiVars
  /\ UNCHANGED reported
  /\ UNCHANGED <<programs, gate, boundProg, events, framebuffers, backBuffer,
                 frame>>

\* line 44: let mut back_buffer = Framebuffer::back_buffer(surface.size())
MainBackBuffer ==
  /\ pc = "back_buffer"
  /\ framebuffers' = Append(framebuffers, Framebuffer_back_buffer(reported))
  /\ backBuffer' = Len(framebuffers) + 1
  /\ acquired' = Append(acquired, "back_buffer")
  /\ pc' = "poll"
  /\ lastOp' = [op |-> "back_buffer"]
  /\ UNCHANGED apiVars
  /\ UNCHANGED reported
  /\ UNCHANGED <<programs, gate, boundProg, events, released, tessBuilt, frame>>

\* line 47: surface.poll_events(), at the top of an iteration of 'app
MainPoll(batch) ==
  /\ pc = "poll"
  /\ events' = batch
  /\ reported' = LastReported(batch, reported)
  /\ frame' = NewFrame
  /\ pc' = "event"
  /\ lastOp' = [op |-> "poll"]
  /\ UNCHANGED apiVars
  /\ UNCHANGED <<programs, gate, boundProg, acquired, released, tessBuilt,
                 framebuffers, backBuffer>>

\* lines 47-57: one turn of the for loop over the polled events
MainEvent ==
  /\ pc = "event"
  /\ IF events = <<>>
     THEN /\ pc' = "pipeline"
          /\ UNCHANGED <<events, framebuffers, backBuffer>>
     ELSE LET event == Head(events)
          IN IF event.ev \in {"Close", "EscapeRelease"}
             THEN /\ pc' = "exit"
                  /\ events' = <<>>
                  /\ UNCHANGED <<framebuffers, backBuffer>>
             ELSE IF event.ev = "FramebufferSize"
             THEN /\ framebuffers' =
                       Append(ReleaseBackBuffer(framebuffers, backBuffer),
                              Framebuffer_back_buffer(ResizedDims(event)))
                  /\ backBuffer' = Len(framebuffers) + 1
                  /\ events' = Tail(events)
                  /\ pc' = "event"
             ELSE /\ events' = Tail(events)
                  /\ pc' = "event"
                  /\ UNCHANGED <<framebuffers, backBuffer>>
  /\ lastOp' = [op |-> "event"]
  /\ UNCHANGED apiVars
  /\ UNCHANGED reported
  /\ UNCHANGED <<programs, gate, boundProg, acquired, released, tessBuilt,
                 frame>>

\* lines 59-63: pipeline(&back_buffer, ..), shade(&program, ..) and
\* render(RenderState::default(), ..): the gate binds, then runs the closure
MainEnter(stmt, bindOk) ==
  /\ pc = stmt
  /\ gate' = Gate_enter(gate, Main_scope(stmt), bindOk)
  /\ boundProg' = IF stmt = "shade" /\ Gate_body(bindOk) THEN Some(1)
                  ELSE boundProg
  /\ pc' = IF Gate_body(bindOk) THEN Main_body(stmt) ELSE Main_skip(stmt)
  /\ frame' = [frame EXCEPT
                 !.trace = IF bindOk THEN @ \o Main_binds(stmt)
                           ELSE Append(@, "bind_failed"),
                 !.failed = IF bindOk THEN @ ELSE Some(Main_scope(stmt)),
                 !.bodies = IF Gate_body(bindOk) THEN @ \cup {Main_scope(stmt)}
                            ELSE @]
  /\ lastOp' = [op |-> "gate", scope |-> Main_scope(stmt), bindOk |-> bindOk]
  /\ UNCHANGED apiVars
  /\ UNCHANGED reported
  /\ UNCHANGED <<programs, events, acquired, released, tessBuilt, framebuffers,
                 backBuffer>>

\* line 66: tess_gate.render(&mut surface, (&tess).into())
MainTessRender ==
  /\ pc = "tess_render"
  /\ frame' = [frame EXCEPT !.trace = Append(@, "draw")]
  /\ lastOp' = [op |-> "draw", gate |-> gate, bound |-> boundProg,
                target |-> backBuffer, mode |-> Tess_draw(tessBuilt[1]).mode,
                vertices |-> Tess_draw(tessBuilt[1]).vertices]
  /\ pc' = "render_end"
  /\ UNCHANGED apiVars
  /\ UNCHANGED reported
  /\ UNCHANGED <<programs, gate, boundProg, events, acquired, released,
                 tessBuilt, framebuffers, backBuffer>>

\* lines 67-69: a closure returns and its gate's scope ends
MainLeave(stmt, next) ==
  /\ pc = stmt
  /\ gate' = Gate_leave(gate)
  /\ boundProg' = IF stmt = "shade_end" THEN None ELSE boundProg
  /\ pc' = next
  /\ lastOp' = [op |-> "leave"]
  /\ UNCHANGED apiVars
  /\ UNCHANGED reported
  /\ UNCHANGED <<programs, events, acquired, released, tessBuilt, framebuffers,
                 backBuffer, frame>>

\* line 71: surface.swap_buffers()
MainSwap ==
  /\ pc = "swap"
  /\ frame' = [frame EXCEPT !.swaps = @ + 1]
  /\ pc' = "poll"
  /\ lastOp' = [op |-> "swap", gate |-> gate]
  /\ UNCHANGED apiVars
  /\ UNCHANGED reported
  /\ UNCHANGED <<programs, gate, boundProg, events, acquired, released,
                 tessBuilt, framebuffers, backBuffer>>

\* line 73: main returns after `break 'app`; its locals are dropped in the
\* reverse order of their declaration
MainExit ==
  /\ pc = "exit"
  /\ released' = released \o Reverse(acquired)
  /\ acquired' = <<>>
  /\ framebuffers' = ReleaseBackBuffer(framebuffers, backBuffer)
  /\ backBuffer' = 0
  /\ programs' = [programs EXCEPT ![1].live = FALSE]
  /\ tessBuilt' = None
  /\ pc' = "done"
  /\ lastOp' = [op |-> "exit"]
  /\ UNCHANGED apiVars
  /\ UNCHANGED reported
  /\ UNCHANGED <<gate, boundProg, events, frame>>

MainNext ==
  \/ \E ok \in BOOLEAN : MainSurface(ok)
  \/ \E ok \in BOOLEAN : MainProgram(ok)
  \/ MainTess
  \/ MainBackBuffer
  \/ \E batch \in PollBatches : MainPoll(batch)
  \/ MainEvent
  \/ \E stmt \in {"pipeline", "shade", "render"}, bindOk \in BOOLEAN :
       MainEnter(stmt, bindOk)
  \/ MainTessRender
  \/ MainLeave("render_end", "shade_end")
  \/ MainLeave("shade_end", "pipeline_end")
  \/ MainLeave("pipeline_end", "swap")
  \/ MainSwap
  \/ MainExit

MainSpec == MainInit /\ [][MainNext]_vars

-----------------------------------------------------------------------------
(* Properties *)

ProgramsWith(h) == {i \in DOMAIN programs : programs[i].repr = h}

\* C1: over any sequence of new, uniform, update and drop, every handle a
\* successful new_program returned is freed exactly once, at the drop of
\* the Program owning it: never twice, never by another operation, and a
\* failed new_program leaves nothing to free.
C1_FreedExactlyOnce ==
  /\ \A h \in Handles :
       /\ Cardinality(ProgramsWith(h)) = beNew[h]
       /\ Cardinality(ProgramsWith(h) \ LivePrograms) = beFree[h]
       /\ Cardinality(ProgramsWith(h) \cap LivePrograms) <= 1
  /\ lastOp.op \in {"new", "uniform", "update"} =>
       \A k \in DOMAIN lastOp.calls : lastOp.calls[k].fn # "free_program"
  /\ lastOp.op = "drop" =>
       /\ Len(lastOp.calls) = 1
       /\ FreeCalls(lastOp.calls, programs[lastOp.prog].repr) = 1

\* a handle was returned twice (reused after its release) and freed twice,
\* and the last operation was a new that the backend rejected
C1_Witness ==
  /\ \E h \in Handles : beNew[h] = 2 /\ beFree[h] = 2
  /\ lastOp.op = "new" /\ ~lastOp.ret.ok

\* the role of the Stage whose backend handle is a
RoleOfHandle(a) == StageRole(CHOOSE s \in StageIds : StageRepr(s) = a)

ValidCombination(call) ==
  /\ RoleOfHandle(call.vertex) = "VertexShader"
  /\ RoleOfHandle(call.fragment) = "FragmentShader"
  /\ \A i \in DOMAIN call.tess :
       /\ Len(call.tess[i]) = 2
       /\ RoleOfHandle(call.tess[i][1]) = "TessellationControlShader"
       /\ RoleOfHandle(call.tess[i][2]) = "TessellationEvaluationShader"
  /\ \A i \in DOMAIN call.geometry :
       RoleOfHandle(call.geometry[i]) = "GeometryShader"

\* C2: the backend's new_program is never invoked with an invalid stage
\* combination: every link call carries a vertex and a fragment stage, both
\* or neither of the tessellation stages, and at most a geometry stage,
\* each in its role (the signature of Program::new admits no other call).
C2_NoInvalidLinkCall ==
  lastOp.op = "new" =>
    \A k \in DOMAIN lastOp.calls :
      lastOp.calls[k].fn = "new_program" => ValidCombination(lastOp.calls[k])

\* a link call with the tessellation pair and no geometry stage was made
C2_Witness ==
  /\ lastOp.op = "new"
  /\ lastOp.tess # None /\ lastOp.geometry = None
  /\ lastOp.calls[1].tess # None

\* the type the linked program of Program i declares for name (a set: empty
\* when the name is not active)
DeclaredTypes(i, name) ==
  {d[2] : d \in {x \in ActiveUniforms(programs[i].repr) : x[1] = name}}

\* C3: a lookup of an active uniform succeeds only for the type the linked
\* program declares for it and is a UniformTypeMismatch for every other
\* type.
C3_TypeChecked ==
  lastOp.op = "uniform" =>
    \A d \in DeclaredTypes(lastOp.prog, lastOp.name) :
      IF lastOp.ty = d
      THEN lastOp.result.ok
      ELSE lastOp.result = Err("UniformTypeMismatch", lastOp.name)

\* C4: a lookup of a name that is not in the program's active uniform set
\* returns Err(InactiveUniform(name)) and no Uniform handle, whatever
\* preceded it.
C4_InactiveUniform ==
  (lastOp.op = "uniform" /\ DeclaredTypes(lastOp.prog, lastOp.name) = {}) =>
    lastOp.result = Err("InactiveUniform", lastOp.name)

\* an inactive name was looked up on a program after a lookup on it that
\* succeeded
C4_Witness ==
  /\ lastOp.op = "uniform"
  /\ DeclaredTypes(lastOp.prog, lastOp.name) = {}
  /\ held # None /\ held[1].origin = lastOp.prog
  /\ ~lastOp.result.ok

\* C6: with two live programs p and q, a Uniform handle obtained from
\* p.uniform never reaches the backend as a write to q: every uniform write
\* made under q.update uses a handle that q.uniform produced (or one whose
\* program is no longer live).
C6_HandleConfined ==
  lastOp.op = "update" =>
    \A k \in DOMAIN lastOp.f :
      lastOp.calls[k + 1].fn = "set_uniform" =>
        \/ lastOp.origin[1].origin = lastOp.prog
        \/ lastOp.origin[1].origin \notin LivePrograms

\* q.update ran a closure setting a handle of the live program p, and the
\* write was rejected
C6_Witness ==
  /\ lastOp.op = "update" /\ lastOp.f # <<>>
  /\ lastOp.origin[1].origin # lastOp.prog
  /\ lastOp.origin[1].origin \in LivePrograms
  /\ lastOp.calls[2].fn = "rejected"

\* C7: update_uniforms is called only while the program is the bound
\* program of an open ShadingGate scope: never in the Surface-ready or
\* Framebuffer-bound state, never while a different program is bound.
C7_UpdateOnlyWhileBound ==
  lastOp.op = "update" =>
    /\ Len(lastOp.gate) >= 2 /\ lastOp.gate[2] = "ShadingGate"
    /\ lastOp.bound = Some(lastOp.prog)

\* C9: dropping a Program releases no Stage: a Stage is released by its
\* own drop only, so every Stage not dropped stays linkable, also after a
\* Program it was linked into was dropped.
C9_StagesOutliveProgram ==
  /\ beStageFreed = {StageRepr(s) : s \in StageIds \ stageLive}
  /\ lastOp.op = "drop" =>
       \A k \in DOMAIN lastOp.calls : lastOp.calls[k].fn = "free_program"

\* a Stage linked into a Program that has been dropped was linked into a
\* further Program
C9_Witness ==
  /\ lastOp.op = "new" /\ lastOp.result.ok
  /\ \E i \in DOMAIN programs \ LivePrograms :
       programs[i].stages \cap programs[Len(programs)].stages # {}

\* C10: Program::new calls new_program exactly once, with exactly the
\* supplied stage handles in their roles; when the backend accepts, new
\* succeeds and the Program returned owns the handle the backend returned.
C10_NewLinksSuppliedStages ==
  lastOp.op = "new" =>
    /\ Len(lastOp.calls) = 1
    /\ lastOp.calls[1].fn = "new_program"
    /\ lastOp.calls[1].vertex = StageRepr(lastOp.vertex)
    /\ lastOp.calls[1].fragment = StageRepr(lastOp.fragment)
    /\ lastOp.calls[1].tess =
         [i \in DOMAIN lastOp.tess |->
            <<StageRepr(lastOp.tess[i][1]), StageRepr(lastOp.tess[i][2])>>]
    /\ lastOp.calls[1].geometry =
         [i \in DOMAIN lastOp.geometry |-> StageRepr(lastOp.geometry[i])]
    /\ lastOp.ret.ok =>
         /\ lastOp.result.ok
         /\ lastOp.result.val.repr = lastOp.ret.val
         /\ programs[Len(programs)] =
              [repr |-> lastOp.ret.val, live |-> TRUE,
               stages |-> StagesUsed(lastOp.tess, lastOp.vertex,
                                     lastOp.geometry, lastOp.fragment)]

\* all five stages were linked and the backend accepted
C10_Witness ==
  /\ lastOp.op = "new" /\ lastOp.ret.ok
  /\ lastOp.tess # None /\ lastOp.geometry # None

\* positions of a backend operation in the trace of the frame
TraceAt(what) == {k \in DOMAIN frame.trace : frame.trace[k] = what}

\* C5: a draw call is issued only inside a TessGate reached through an open
\* RenderGate inside an open ShadingGate inside an open Pipeline scope: at
\* every draw the framebuffer was bound, then the program, then the render
\* state; and the open scopes always form a chain from the Pipeline scope
\* down, so no gate is open without its parent.
C5_DrawOnlyInsideGates ==
  /\ gate \in {SurfaceReady, FramebufferBound, ProgramBound, StateConfigured}
  /\ lastOp.op = "draw" =>
       /\ lastOp.gate = StateConfigured
       /\ lastOp.bound # None
       /\ lastOp.target # 0
  /\ \A d \in TraceAt("draw") :
       \E a \in TraceAt("bind_framebuffer"), b \in TraceAt("use_program"),
          c \in TraceAt("render_state") : a < b /\ b < c /\ c < d

\* a draw was issued against a back buffer rebuilt after a resize
C5_Witness ==
  /\ lastOp.op = "draw"
  /\ Len(framebuffers) >= 2

\* the scopes nested inside a scope, itself included
ScopesWithin(scope) ==
  CASE scope = "Pipeline" -> {"Pipeline", "ShadingGate", "RenderGate"}
    [] scope = "ShadingGate" -> {"ShadingGate", "RenderGate"}
    [] scope = "RenderGate" -> {"RenderGate"}

\* C8: when a bind fails on entering a gate, the closure of that scope and
\* of every scope nested in it never runs in that frame, no draw call is
\* issued, and no bind is attempted again: the failure is the last backend
\* operation of the frame.
C8_NoBodyAfterBindFailure ==
  \A k \in DOMAIN frame.failed :
    /\ frame.bodies \cap ScopesWithin(frame.failed[k]) = {}
    /\ TraceAt("draw") = {}
    /\ frame.trace[Len(frame.trace)] = "bind_failed"
    /\ Cardinality(TraceAt("bind_failed")) = 1
    /\ pc \notin {"render", "tess_render", "render_end"}
    /\ \A i \in DOMAIN gate : gate[i] \notin ScopesWithin(frame.failed[k])

\* the bind of the RenderGate failed after the Pipeline and ShadingGate
\* closures had started, and the frame went on to its swap
C8_Witness ==
  /\ frame.failed = Some("RenderGate")
  /\ frame.bodies = {"Pipeline", "ShadingGate"}
  /\ pc = "swap"

\* the uniforms declared by the stages Program i was linked from
LinkedUniforms(i) == UNION {StageUniforms(s) : s \in programs[i].stages}

\* C11: program.uniform(name) is a pure lookup.  It changes neither a
\* Program nor a backend program object, and its result is fixed by the
\* program, the name and the type: a lookup repeated for the handle the
\* client still holds from an earlier one returns that same handle, and a
\* name the linked stages do not declare is the same error every time,
\* whatever lookups or updates came in between.
C11_SameResult ==
  lastOp.op = "uniform" =>
    /\ lastOp.result.ok <=> (\E d \in LinkedUniforms(lastOp.prog) :
                               d[1] = lastOp.name)
    /\ ~lastOp.result.ok => lastOp.result = Err("InactiveUniform", lastOp.name)
    /\ \A k \in DOMAIN lastOp.before :
         ( /\ lastOp.before[k].origin = lastOp.prog
           /\ lastOp.before[k].uni.u.slot = UniformSlot(lastOp.name)
           /\ lastOp.before[k].uni.ty = lastOp.ty
           /\ lastOp.result.ok )
         => lastOp.result.val = lastOp.before[k].uni

C11_PureLookup ==
  /\ []C11_SameResult
  /\ [][lastOp'.op = "uniform" =>
          UNCHANGED <<programs, beNew, beFree, beLinked, beStageFreed,
                      stageLive, gate, boundProg>>]_vars

\* a lookup was repeated on a program for the handle already held from it,
\* and returned that handle again
C11_Witness ==
  /\ lastOp.op = "uniform" /\ lastOp.result.ok
  /\ lastOp.before # None
  /\ lastOp.before[1].origin = lastOp.prog
  /\ lastOp.before[1].uni = lastOp.result.val

\* C12: the pipeline of a frame always runs against a back buffer whose
\* recorded dimensions are those of the last FramebufferSize event polled
\* so far, or the initial surface size when there was none: never against
\* a stale size.
C12_PipelineTargetsReportedSize ==
  (pc \in {"pipeline", "shade", "render", "tess_render", "render_end",
           "shade_end", "pipeline_end"}) =>
    /\ backBuffer \in DOMAIN framebuffers
    /\ framebuffers[backBuffer].dims = reported
    /\ framebuffers[backBuffer].releases = 0

\* a draw was issued against a back buffer rebuilt twice, whose size
\* differs from the initial surface size
C12_Witness ==
  /\ lastOp.op = "draw"
  /\ Len(framebuffers) >= 3
  /\ framebuffers[lastOp.target].dims # InitialSize

\* C13: once a close signal (Close, or Escape released) is handled, main
\* enters no Pipeline scope, issues no draw and swaps no buffer, not even
\* in the frame that polled it, and then releases what it holds in the
\* reverse order of acquisition: back buffer, tess, program, surface.
C13_CloseStopsAndReleases ==
  /\ pc \in {"exit", "done"} =>
       /\ frame.trace = <<>>
       /\ frame.swaps = 0
       /\ frame.bodies = {}
       /\ gate = SurfaceReady
       /\ events = <<>>
  /\ pc = "done" =>
       /\ released = <<"back_buffer", "tess", "program", "surface">>
       /\ acquired = <<>>
       /\ backBuffer = 0

\* main returned after a close signal that preceded a FramebufferSize
\* event in its batch: that event was never handled
C13_Witness ==
  /\ pc = "done"
  /\ framebuffers # <<>>
  /\ framebuffers[Len(framebuffers)].dims # reported

\* C14: a Tess built from an explicit vertex count n > 0 and no attribute
\* data is built successfully and its draw issues exactly n per-vertex
\* invocations; with no count and no data the build fails with
\* NoVerticesSpecified; so every Tess built has a vertex count above 0.
C14_TessHasVertices ==
  /\ (lastOp.op = "tess_build" /\ lastOp.data = 0) =>
       IF lastOp.vertex_nb > 0
       THEN /\ lastOp.result.ok
            /\ lastOp.result.val.vertex_nb = lastOp.vertex_nb
            /\ tessBuilt = Some(lastOp.result.val)
       ELSE lastOp.result = Err("NoVerticesSpecified", "")
  /\ \A k \in DOMAIN tessBuilt : tessBuilt[k].vertex_nb > 0
  /\ (lastOp.op = "draw" /\ pc = "library") =>
       lastOp.vertices = tessBuilt[1].vertex_nb

\* a Tess of more than one vertex, built from a count alone, is drawn
C14_Witness ==
  /\ lastOp.op = "draw" /\ pc = "library"
  /\ lastOp.vertices > 1
  /\ gate = StateConfigured

\* C15: in the attributeless example every pass through Pipeline,
\* ShadingGate, RenderGate and TessGate against the back buffer issues
\* exactly one draw, of mode Triangle and three vertices, and no
\* uniform-update call.
C15_OneTriangleDrawPerPass ==
  /\ Cardinality(TraceAt("draw")) <= 1
  /\ TraceAt("update_uniforms") = {}
  /\ (pc = "swap" /\ frame.failed = None) =>
       frame.trace = <<"bind_framebuffer", "clear", "use_program",
                       "render_state", "draw">>
  /\ (lastOp.op = "draw" /\ pc = "render_end") =>
       /\ lastOp.mode = "Triangle"
       /\ lastOp.vertices = 3
       /\ lastOp.target = backBuffer
       /\ lastOp.target \in DOMAIN framebuffers
       /\ lastOp.bound = Some(programs[1].repr)

\* a complete pass has just drawn, in a frame after a resize
C15_Witness ==
  /\ lastOp.op = "draw" /\ pc = "render_end"
  /\ Len(framebuffers) > 1

\* the scopes open at each statement of the loop body
Main_open(stmt) ==
  CASE stmt \in {"shade", "pipeline_end"} -> FramebufferBound
    [] stmt \in {"render", "shade_end"} -> ProgramBound
    [] stmt \in {"tess_render", "render_end"} -> StateConfigured
    [] OTHER -> SurfaceReady

\* C16: gate scopes nest as a stack: the Pipeline scope binds and clears
\* the framebuffer before any ShadingGate is entered, leaving a scope gives
\* back its parent's state and leaving the Pipeline gives Surface-ready;
\* swap_buffers runs exactly once per frame, in Surface-ready, after the
\* frame's gate chain is over.
C16_ScopesNestAndSwapOnce ==
  /\ gate = Main_open(pc)
  /\ \A k \in TraceAt("use_program") :
       /\ k = 3
       /\ frame.trace[1] = "bind_framebuffer"
       /\ frame.trace[2] = "clear"
  /\ frame.swaps <= 1
  /\ lastOp.op = "swap" =>
       /\ lastOp.gate = SurfaceReady
       /\ frame.swaps = 1
       /\ pc = "poll"
  /\ (pc = "poll" /\ lastOp.op # "back_buffer") => frame.swaps = 1
  /\ pc \in {"pipeline", "shade", "render", "tess_render", "render_end",
             "shade_end", "pipeline_end", "swap"} => frame.swaps = 0

\* a frame whose ShadingGate failed to bind has been presented
C16_Witness ==
  /\ lastOp.op = "swap"
  /\ frame.failed = Some("ShadingGate")

\* the back-buffer Framebuffers not released yet
LiveFramebuffers == {k \in DOMAIN framebuffers : framebuffers[k].releases = 0}

C19_ReleasedAtReplacement ==
  /\ \A k \in DOMAIN framebuffers :
       framebuffers[k].releases = IF k = backBuffer THEN 0 ELSE 1
  /\ Cardinality(LiveFramebuffers) <= 1
  /\ pc = "pipeline" => LiveFramebuffers = {backBuffer}
  /\ gate # SurfaceReady => LiveFramebuffers = {backBuffer}
  /\ pc = "done" => LiveFramebuffers = {}

\* C19: every Framebuffer made by a resize or at start is released exactly
\* once, when its replacement is stored or main returns; at most one is
\* live when the Pipeline is entered and none is released while a
\* Pipeline scope is open.
C19_BackBufferReleasedOnce ==
  /\ []C19_ReleasedAtReplacement
  /\ [][gate # SurfaceReady => UNCHANGED <<framebuffers, backBuffer>>]_vars

\* two Framebuffers have been replaced and a Pipeline is open on the third
C19_Witness ==
  /\ Len(framebuffers) = 3
  /\ gate = FramebufferBound
  /\ framebuffers[1].releases = 1 /\ framebuffers[2].releases = 1

\* the calls of the last operation that went to the backend function fn
CallsTo(fn) == {k \in DOMAIN lastOp.calls : lastOp.calls[k].fn = fn}

\* C17: a failure is returned where it occurs, unchanged and without
\* retry: when new_program fails, Program::new makes no other backend call,
\* returns that error and constructs no Program, so nothing is freed for
\* it later; when map_uniform fails, Program::uniform returns that error
\* and constructs no Uniform; every call reaches the backend exactly once.
C17_FailuresPassedOn ==
  /\ lastOp.op = "new" =>
       /\ Len(lastOp.calls) = 1
       /\ Cardinality(CallsTo("new_program")) = 1
       /\ lastOp.result.ok = lastOp.ret.ok
       /\ ~lastOp.ret.ok => lastOp.result = lastOp.ret
  /\ \A h \in Handles :
       /\ Cardinality(ProgramsWith(h)) = beNew[h]
       /\ beFree[h] <= beNew[h]
  /\ lastOp.op = "uniform" =>
       /\ Len(lastOp.calls) = 1
       /\ Cardinality(CallsTo("map_uniform")) = 1
       /\ lastOp.result.ok = lastOp.calls[1].ret.ok
       /\ ~lastOp.calls[1].ret.ok =>
            /\ lastOp.result = lastOp.calls[1].ret
            /\ held = lastOp.before
  /\ lastOp.op = "update" => Cardinality(CallsTo("update_uniforms")) = 1
  /\ lastOp.op = "drop" => Cardinality(CallsTo("free_program")) = 1

\* a lookup failed while the client held a handle from an earlier lookup
C17_Witness ==
  /\ lastOp.op = "uniform"
  /\ ~lastOp.result.ok
  /\ held # None

\* handle h names a program the backend has made and not released
InUse(h) == beNew[h] = beFree[h] + 1

\* C18: no backend operation is issued on a released program handle: every
\* map_uniform and update_uniforms call on a handle comes after the
\* new_program that produced it and before its free_program, which is the
\* last backend call on it.
C18_NoCallOnReleasedHandle ==
  /\ lastOp.op \in {"uniform", "update"} =>
       \A k \in DOMAIN lastOp.calls :
         lastOp.calls[k].fn \in {"map_uniform", "update_uniforms",
                                 "set_uniform"}
           => InUse(lastOp.calls[k].program)
  /\ lastOp.op = "drop" =>
       \A k \in CallsTo("free_program") :
         /\ ~InUse(lastOp.calls[k].program)
         /\ beFree[lastOp.calls[k].program] > 0
  /\ \A i \in LivePrograms : InUse(programs[i].repr)
  /\ \A h \in Handles :
       ~InUse(h) => \A i \in DOMAIN programs :
                      programs[i].repr = h => ~programs[i].live

\* a program is updated after another program's handle was released
C18_Witness ==
  /\ lastOp.op = "update"
  /\ \E h \in Handles : beFree[h] > 0 /\ ~InUse(h)

=============================================================================
